---- MODULE Spec2Model ----
(***************************************************************************)
(* Model of the collaboration session of src-tauri/src/collab.rs: the      *)
(* lock-guarded user map, the broadcast sender and the operations of       *)
(* CollabSession.  Every operation takes the map's lock on its first       *)
(* line and holds it until it returns, so one action models one whole      *)
(* call (Spec, SpecJoin, SpecReap, SpecRoster); SpecRace models add_user    *)
(* statement by statement for two callers that contend for the write       *)
(* guard.  SpecBus adds the receivers of the broadcast channel, SpecLive    *)
(* two callers of the mutating methods under a fair lock.  SpecOrder and   *)
(* SpecBatch step two callers through lock, mutation and send; SpecColor,  *)
(* SpecInactive and SpecConn are scenarios for the palette, for flagged    *)
(* users and for one client connection.                                    *)
(***************************************************************************)
EXTENDS Integers, Sequences, FiniteSets, TLC

\* ------------------------------------------------------------------ bounds
MaxCalls == 2        \* calls in one history of Spec
MaxJoins == 3        \* calls in one history of SpecJoin
MaxReaps == 3        \* calls in one history of SpecReap
MaxRaceCalls == 3    \* calls in one history of SpecRace
MaxRosterCalls == 4  \* calls in one history of SpecRoster
MaxTime == 1         \* clock readings 0 .. MaxTime
MaxCap == 2          \* max_users handed to CollabSession::new
MaxBatch == 2        \* entries in one batch
MaxTimeout == 0      \* timeout_secs handed to cleanup_inactive
MaxBusCalls == 5     \* calls in one history of SpecBus
MaxLiveCalls == 3    \* calls in one history of SpecLive
MaxBatchCalls == 4    \* SpecBatch: two joins, then calls up to this total
MaxOrderCalls == 3    \* calls in one history of SpecOrder
MaxInactiveCalls == 4 \* calls in one history of SpecInactive
MaxConnCalls == 7    \* calls in one history of SpecConn before the leave
MaxColorHist == 6    \* SpecColor: a call starts while hist is shorter than this
MaxColorIndex == 8   \* SpecColor: join indices 0 .. MaxColorIndex
BusCap == 3          \* capacity handed to broadcast::channel (1000, scaled)

\* ------------------------------------------------------------------ inputs
Ids == {"u1", "u2", "u3"}

USER_COLORS ==
    << "#FF6B6B", "#4ECDC4", "#45B7D1", "#FFA07A",
       "#98D8C8", "#F7DC6F", "#BB8FCE", "#85C1E2" >>

\* mutant: an index past the palette is clamped to its last entry
get_user_color_clamped(index) ==
    USER_COLORS[(IF index >= Len(USER_COLORS) THEN Len(USER_COLORS) - 1 ELSE index) + 1]

get_user_color(index) == USER_COLORS[(index % Len(USER_COLORS)) + 1]

\* the name and the palette index of each user, as the tests build them
Profile(id) ==
    CASE id = "u1" -> << "Alice", 0 >>
      [] id = "u2" -> << "Bob", 1 >>
      [] OTHER -> << "Charlie", 2 >>

CursorPosition(line, column, file, timestamp) ==
    [line |-> line, column |-> column, file |-> file, timestamp |-> timestamp]

c1 == CursorPosition(42, 15, "src/main.rs", 0)
c2 == CursorPosition(7, 0, "src/lib.rs", 1)

Cursors == { c1, c2 }

\* Option<T>: None is the empty sequence, Some(x) the one-element sequence
None == << >>
Some(x) == << x >>

Timeouts == 0 .. MaxTimeout

VARIABLES
    users,      \* HashMap<String, UserPresence> behind the RwLock
    maxUsers,   \* CollabSession.maxUsers
    createdAt,  \* CollabSession.createdAt
    tx,         \* every message handed to self.tx.send, in order
    now,        \* chrono::Utc::now().timestamp()
    hist,       \* the calls completed so far, in the order they held the lock
    th,         \* SpecRace: each caller's position inside add_user
    lock,       \* the holder of the RwLock's write guard, or "free"
    rx,         \* the broadcast::Receivers subscribed to tx
    cs,         \* SpecLive: each caller's pending call and its position
    conn        \* SpecConn: the two loops of one client connection

vars == << users, maxUsers, createdAt, tx, now, hist, th, lock, rx, cs, conn >>

callers == << th, lock, cs, conn >>

Subs == {"s1", "s2"}

Threads == {"t1", "t2"}

\* ------------------------------------------------------------- data types
UserPresence_new(id, name, color, t) ==
    [id |-> id, name |-> name, color |-> color,
     cursor |-> None, lastSeen |-> t, isActive |-> TRUE]

\* the presences a caller hands to add_user: built by UserPresence::new at
\* the current time, the public isActive field as the caller (or the wire) set it
Presences(t) ==
    { [UserPresence_new(id, Profile(id)[1], get_user_color(Profile(id)[2]), t)
           EXCEPT !.isActive = a] : id \in Ids, a \in BOOLEAN }

UserJoin(p) == [type |-> "user_join", user |-> p]
UserLeave(id) == [type |-> "user_leave", userId |-> id]
UserInactive(id) == [type |-> "user_inactive", userId |-> id]
CursorMove(id, c) == [type |-> "cursor_move", userId |-> id, cursor |-> c]
CursorBatch(ups) == [type |-> "cursor_batch", updates |-> ups]
SessionInfo(n, t) ==
    [type |-> "session_info", sessionId |-> "session", usersCount |-> n, createdAt |-> t]

Ok == "Ok"
SessionFullErr == "Err(Session full)"
Unit == "()"

\* ------------------------------------------------------- map primitives
len(us) == Cardinality(DOMAIN us)

insert(us, p) ==
    [i \in (DOMAIN us) \cup {p.id} |-> IF i = p.id THEN p ELSE us[i]]

remove(us, id) == [i \in (DOMAIN us) \ {id} |-> us[i]]

send(bus, msg) == Append(bus, msg)

Call(op, arg, ret) == [op |-> op, arg |-> arg, ret |-> ret]

CanCall(n) == Len(hist) < n

\* -------------------------------------------------- broadcast channel
\* the channel keeps the requested capacity rounded up to a power of two
RECURSIVE next_power_of_two_from(_, _)
next_power_of_two_from(p, n) ==
    IF p >= n THEN p ELSE next_power_of_two_from(2 * p, n)

next_power_of_two(n) == next_power_of_two_from(1, n)

Capacity == next_power_of_two(BusCap)

\* a receiver that does not exist yet, and the one subscribe() creates:
\* since = the messages sent before it, next = the position it reads next,
\* got = what its recv calls have returned so far
NoReceiver == [open |-> FALSE, since |-> 0, next |-> 1, got |-> << >>]

Receiver(bus) ==
    [open |-> TRUE, since |-> Len(bus), next |-> Len(bus) + 1, got |-> << >>]

RecvOk(pos, msg) == [kind |-> "Ok", pos |-> pos, msg |-> msg]
RecvLagged(n) == [kind |-> "Lagged", missed |-> n]

\* the messages sent that receiver r has not read
backlog(bus, r) == Len(bus) - r.next + 1

receiver_count(r) == Cardinality({ s \in Subs : r[s].open })

\* Sender::send fails, and keeps nothing, when no receiver exists
send_result(r) == IF receiver_count(r) = 0 THEN "Err(SendError)" ELSE Ok

\* a client connection that has not been accepted: neither loop runs and
\* the leave of its user has not been issued
NoConnection == [inbound |-> "none", outbound |-> "none", left |-> FALSE]

\* a caller of SpecLive that is not inside a call
Idle == [pc |-> "idle", op |-> "", arg |-> None]

\* ----------------------------------------------------------------- new
Init ==
    /\ users = << >>
    /\ maxUsers \in 0 .. MaxCap
    /\ createdAt = 0
    /\ tx = << >>
    /\ now = 0
    /\ hist = << >>
    /\ th = [t \in Threads |->
               [pc |-> "idle", presence |-> None, ret |-> None, snap |-> {}, peers |-> {}]]
    /\ lock = "free"
    /\ rx = [s \in Subs |-> NoReceiver]
    /\ cs = [t \in Threads |-> Idle]
    /\ conn = NoConnection

\* ------------------------------------------------------------- add_user
\* mutant: the capacity check lets one join too many through
SessionFull_off_by_one(us, mx) == len(us) > mx

\* mutant: the capacity check counts the active records only
SessionFull_active_only(us, mx) ==
    Cardinality({ i \in DOMAIN us : us[i].isActive }) >= mx

\* line 171
SessionFull(us, mx) == len(us) >= mx

\* mutant: the record is stored before the capacity check, and stays
add_user_users_insert_first(us, mx, p) == insert(us, p)

\* mutant: entry().or_insert keeps the record an id already has
add_user_users_keep_existing(us, mx, p) ==
    IF SessionFull(us, mx) \/ p.id \in DOMAIN us THEN us ELSE insert(us, p)

\* mutant: an id that is already stored is let through at capacity
add_user_users_rejoin_at_capacity(us, mx, p) ==
    IF SessionFull(us, mx) /\ p.id \notin DOMAIN us THEN us ELSE insert(us, p)

add_user_users(us, mx, p) == IF SessionFull(us, mx) THEN us ELSE insert(us, p)

\* mutant: UserJoin is sent before the capacity check
add_user_tx_always(bus, us, mx, p) == send(bus, UserJoin(p))

add_user_tx(bus, us, mx, p) ==
    IF SessionFull(us, mx) THEN bus ELSE send(bus, UserJoin(p))

\* mutant: the result of send is returned with `?`, not discarded by `let _`
add_user_ret_send_error(us, mx) ==
    IF SessionFull(us, mx) THEN SessionFullErr ELSE send_result(rx)

add_user_ret(us, mx) == IF SessionFull(us, mx) THEN SessionFullErr ELSE Ok

add_user(p) ==
    /\ users' = add_user_users(users, maxUsers, p)
    /\ tx' = add_user_tx(tx, users, maxUsers, p)
    /\ hist' = Append(hist, Call("add_user", p, add_user_ret(users, maxUsers)))
    /\ UNCHANGED << maxUsers, createdAt, now, callers, rx >>

\* ---------------------------------------------------------- remove_user
\* mutant: retain with the predicate inverted keeps only the named user
remove_user_users_retain_inverted(us, id) ==
    [i \in (DOMAIN us) \cap {id} |-> us[i]]

remove_user_users(us, id) == remove(us, id)

\* mutant: UserLeave is sent only when a record was removed
remove_user_tx_if_present(bus, us, id) ==
    IF id \in DOMAIN us THEN send(bus, UserLeave(id)) ELSE bus

remove_user_tx(bus, us, id) == send(bus, UserLeave(id))

remove_user(id) ==
    /\ users' = remove_user_users(users, id)
    /\ tx' = remove_user_tx(tx, users, id)
    /\ hist' = Append(hist, Call("remove_user", id, Unit))
    /\ UNCHANGED << maxUsers, createdAt, now, callers, rx >>

\* -------------------------------------------------------- mark_inactive
\* mutant: the flagged record is dropped from the map
mark_inactive_users_remove(us, id) == remove(us, id)

mark_inactive_users(us, id) ==
    IF id \in DOMAIN us THEN [us EXCEPT ![id].isActive = FALSE] ELSE us

\* mutant: UserInactive is sent from inside the if-let
mark_inactive_tx_if_present(bus, us, id) ==
    IF id \in DOMAIN us THEN send(bus, UserInactive(id)) ELSE bus

mark_inactive_tx(bus, us, id) == send(bus, UserInactive(id))

mark_inactive(id) ==
    /\ users' = mark_inactive_users(users, id)
    /\ tx' = mark_inactive_tx(tx, users, id)
    /\ hist' = Append(hist, Call("mark_inactive", id, Unit))
    /\ UNCHANGED << maxUsers, createdAt, now, callers, rx >>

\* -------------------------------------------------------- update_cursor
\* mutant: get_mut replaced by entry().or_insert_with
set_cursor_upsert(us, id, c, t) ==
    IF id \in DOMAIN us
    THEN [us EXCEPT ![id].cursor = Some(c), ![id].lastSeen = t]
    ELSE insert(us, [UserPresence_new(id, "", "", t) EXCEPT !.cursor = Some(c)])

\* mutant: a cursor update marks the user active again
set_cursor_reactivates(us, id, c, t) ==
    IF id \in DOMAIN us
    THEN [us EXCEPT ![id].cursor = Some(c), ![id].lastSeen = t, ![id].isActive = TRUE]
    ELSE us

set_cursor(us, id, c, t) ==
    IF id \in DOMAIN us
    THEN [us EXCEPT ![id].cursor = Some(c), ![id].lastSeen = t]
    ELSE us

\* mutant: only lastSeen is refreshed, the cursor is left as it was
update_cursor_users_touch_only(us, id, c, t) ==
    IF id \in DOMAIN us THEN [us EXCEPT ![id].lastSeen = t] ELSE us

\* mutant: entry().or_insert creates a record for an unknown id
update_cursor_users_upsert(us, id, c, t) ==
    IF id \in DOMAIN us
    THEN set_cursor(us, id, c, t)
    ELSE insert(us, [UserPresence_new(id, "", "", t) EXCEPT !.cursor = Some(c)])

update_cursor_users(us, id, c, t) == set_cursor(us, id, c, t)

update_cursor_tx(bus, us, id, c) == send(bus, CursorMove(id, c))

update_cursor(id, c) ==
    /\ users' = update_cursor_users(users, id, c, now)
    /\ tx' = update_cursor_tx(tx, users, id, c)
    /\ hist' = Append(hist, Call("update_cursor", << id, c >>, Unit))
    /\ UNCHANGED << maxUsers, createdAt, now, callers, rx >>

\* ------------------------------------------------- batch_cursor_updates
\* mutant: the loop returns at the first id that is not in the map
RECURSIVE batch_apply_stop_at_absent(_, _, _)
batch_apply_stop_at_absent(us, updates, t) ==
    IF updates = << >> \/ Head(updates)[1] \notin DOMAIN us THEN us
    ELSE batch_apply_stop_at_absent(
             set_cursor(us, Head(updates)[1], Head(updates)[2], t),
             Tail(updates), t)

RECURSIVE batch_apply(_, _, _)
batch_apply(us, updates, t) ==
    IF updates = << >> THEN us
    ELSE batch_apply(set_cursor(us, Head(updates)[1], Head(updates)[2], t),
                     Tail(updates), t)

batch_cursor_updates_tx(bus, updates) == send(bus, CursorBatch(updates))

BatchEntries ==
    { << "u1", c1 >>, << "u2", c2 >> }

Batches ==
    UNION { [1 .. n -> BatchEntries] : n \in 0 .. MaxBatch }

batch_cursor_updates(updates) ==
    /\ users' = batch_apply(users, updates, now)
    /\ tx' = batch_cursor_updates_tx(tx, updates)
    /\ hist' = Append(hist, Call("batch_cursor_updates", updates, Unit))
    /\ UNCHANGED << maxUsers, createdAt, now, callers, rx >>

\* ------------------------------------------------------ read operations
\* mutant: the isActive filter is missing
get_users_ret_unfiltered(us) == { us[i] : i \in DOMAIN us }

get_users_ret(us) == { us[i] : i \in { j \in DOMAIN us : us[j].isActive } }

get_user_ret(us, id) == IF id \in DOMAIN us THEN Some(us[id]) ELSE None

info_ret(us, t) == SessionInfo(len(us), t)

get_users ==
    /\ hist' = Append(hist, Call("get_users", Unit, get_users_ret(users)))
    /\ UNCHANGED << users, maxUsers, createdAt, tx, now, callers, rx >>

get_user(id) ==
    /\ hist' = Append(hist, Call("get_user", id, get_user_ret(users, id)))
    /\ UNCHANGED << users, maxUsers, createdAt, tx, now, callers, rx >>

info ==
    /\ hist' = Append(hist, Call("info", Unit, info_ret(users, createdAt)))
    /\ UNCHANGED << users, maxUsers, createdAt, tx, now, callers, rx >>

\* ----------------------------------------------------- cleanup_inactive
\* mutant: the comparison is >= instead of >
to_remove_inclusive(us, t, timeout_secs) ==
    { id \in DOMAIN us : t - us[id].lastSeen >= timeout_secs }

\* mutant: the reaper also takes every record flagged inactive
to_remove_or_inactive(us, t, timeout_secs) ==
    { id \in DOMAIN us : t - us[id].lastSeen > timeout_secs \/ ~us[id].isActive }

to_remove(us, t, timeout_secs) ==
    { id \in DOMAIN us : t - us[id].lastSeen > timeout_secs }

RECURSIVE remove_each(_, _)
remove_each(us, order) ==
    IF order = << >> THEN us
    ELSE remove_each(remove(us, Head(order)), Tail(order))

\* the Vec collected from the map's iterator: the ids in any order
Orders(S) ==
    { o \in [1 .. Cardinality(S) -> S] : \A i, j \in DOMAIN o : i # j => o[i] # o[j] }

\* mutant: the reaper announces every eviction with a UserLeave
RECURSIVE cleanup_inactive_tx_leave_each(_, _)
cleanup_inactive_tx_leave_each(bus, order) ==
    IF order = << >> THEN bus
    ELSE cleanup_inactive_tx_leave_each(send(bus, UserLeave(Head(order))), Tail(order))

\* lines 262-275 hold no send: the bus is as it was
cleanup_inactive_tx(bus, order) == bus

\* line 263 reads the clock before line 264 asks for the guard: t is that
\* reading, taken at or before the moment the guard is granted
cleanup_inactive(timeout_secs, t) ==
    /\ \E order \in Orders(to_remove(users, t, timeout_secs)) :
           /\ users' = remove_each(users, order)
           /\ tx' = cleanup_inactive_tx(tx, order)
    /\ hist' = Append(hist, Call("cleanup_inactive", << timeout_secs, t >>, Unit))
    /\ UNCHANGED << maxUsers, createdAt, now, callers, rx >>

\* ---------------------------------------------------------------- clock
Tick ==
    /\ now < MaxTime
    /\ now' = now + 1
    /\ UNCHANGED << users, maxUsers, createdAt, tx, hist, callers, rx >>

\* ------------------------------------------------- subscribe and recv
\* mutant: a new receiver starts at the oldest message the channel retains
Receiver_replay(bus) ==
    [Receiver(bus) EXCEPT !.next = IF Len(bus) > Capacity
                                   THEN Len(bus) - Capacity + 1 ELSE 1]

\* tx.subscribe(): the receiver sees only what is sent from now on
subscribe_rx(bus) == Receiver(bus)

subscribe(s) ==
    /\ ~rx[s].open
    /\ rx' = [rx EXCEPT ![s] = subscribe_rx(tx)]
    /\ UNCHANGED << users, maxUsers, createdAt, tx, now, hist, callers >>

lagging(bus, r) == backlog(bus, r) > Capacity

\* what recv returns: Lagged(missed) once the position the receiver reads
\* next has been overwritten, else the message at that position
recv_result(bus, r) ==
    IF lagging(bus, r)
    THEN RecvLagged(backlog(bus, r) - Capacity)
    ELSE RecvOk(r.next, bus[r.next])

\* mutant: a receiver that is behind is handed the newest message only
recv_next_newest(bus, r) == Len(bus) + 1

\* after Lagged the receiver stands at the oldest retained message
recv_next(bus, r) ==
    IF lagging(bus, r) THEN Len(bus) - Capacity + 1 ELSE r.next + 1

\* mutant: a receiver that lagged is closed
recv_rx_close_on_lag(bus, r) ==
    [r EXCEPT !.got = Append(@, recv_result(bus, r)),
              !.next = recv_next(bus, r),
              !.open = ~lagging(bus, r)]

recv_rx(bus, r) ==
    [r EXCEPT !.got = Append(@, recv_result(bus, r)),
              !.next = recv_next(bus, r)]

\* recv().await completes only when there is something to return
recv(s) ==
    /\ rx[s].open
    /\ backlog(tx, rx[s]) > 0
    /\ rx' = [rx EXCEPT ![s] = recv_rx(tx, rx[s])]
    /\ UNCHANGED << users, maxUsers, createdAt, tx, now, hist, callers >>

Next ==
    \/ /\ CanCall(MaxCalls)
       /\ \/ \E p \in Presences(now) : add_user(p)
          \/ \E id \in Ids : remove_user(id)
          \/ \E id \in Ids : mark_inactive(id)
          \/ \E id \in Ids, c \in Cursors : update_cursor(id, c)
          \/ \E updates \in Batches : batch_cursor_updates(updates)
          \/ get_users
          \/ \E id \in Ids : get_user(id)
          \/ info
          \/ \E timeout_secs \in Timeouts, t \in 0 .. now : cleanup_inactive(timeout_secs, t)
    \/ Tick

Spec == Init /\ [][Next]_vars

\* joins only, on a fresh session
NextJoin ==
    /\ CanCall(MaxJoins)
    /\ \E p \in Presences(now) : add_user(p)

SpecJoin == Init /\ [][NextJoin]_vars

\* joins, inactivity marks and the reaper, with the clock running
NextReap ==
    \/ /\ CanCall(MaxReaps)
       /\ \/ \E p \in Presences(now) : add_user(p)
          \/ \E id \in Ids : mark_inactive(id)
          \/ \E timeout_secs \in Timeouts, t \in 0 .. now : cleanup_inactive(timeout_secs, t)
    \/ Tick

SpecReap == Init /\ [][NextReap]_vars

\* joins, inactivity marks and the two queries that count users
NextRoster ==
    /\ CanCall(MaxRosterCalls)
    /\ \/ \E p \in Presences(now) : add_user(p)
       \/ \E id \in Ids : mark_inactive(id)
       \/ get_users
       \/ info

SpecRoster == Init /\ [][NextRoster]_vars

\* one user joining and leaving while receivers subscribe and read
BusPresences(t) == { p \in Presences(t) : p.id = "u1" /\ p.isActive }

NextBus ==
    \/ /\ CanCall(MaxBusCalls)
       /\ \/ \E p \in BusPresences(now) : add_user(p)
          \/ remove_user("u1")
    \/ \E s \in Subs : subscribe(s)
    \/ \E s \in Subs : recv(s)

SpecBus == Init /\ [][NextBus]_vars

\* a client picks its color by its join index and joins with it, as the
\* tests do: get_user_color(index), UserPresence::new, add_user
ColorIds == {"u1", "u2"}

join_with_color(id, index) ==
    LET color == get_user_color(index)
        p == UserPresence_new(id, Profile(id)[1], color, now)
    IN  /\ users' = add_user_users(users, maxUsers, p)
        /\ tx' = add_user_tx(tx, users, maxUsers, p)
        /\ hist' = hist \o << Call("get_user_color", index, color),
                              Call("add_user", p, add_user_ret(users, maxUsers)) >>
        /\ UNCHANGED << maxUsers, createdAt, now, callers, rx >>

NextColor ==
    /\ CanCall(MaxColorHist)
    /\ \/ \E id \in ColorIds, index \in 0 .. MaxColorIndex : join_with_color(id, index)
       \/ \E id \in ColorIds : remove_user(id)

SpecColor == Init /\ [][NextColor]_vars

\* user u1 joins, is flagged inactive and keeps sending cursor updates
InactiveBatches ==
    { << << "u1", c1 >> >>, << << "u2", c2 >>, << "u1", c1 >> >> }

NextInactive ==
    \/ /\ CanCall(MaxInactiveCalls)
       /\ \/ \E p \in BusPresences(now) : add_user(p)
          \/ mark_inactive("u1")
          \/ \E c \in Cursors : update_cursor("u1", c)
          \/ \E updates \in InactiveBatches : batch_cursor_updates(updates)
          \/ get_users
    \/ Tick

SpecInactive == Init /\ [][NextInactive]_vars

\* ------------------------------------------- one client connection
\* the connection of user u1: its handler joins the session, subscribes
\* receiver s1 and runs an inbound and an outbound loop; another client
\* keeps the bus busy
ConnUser == "u1"
ConnSub == "s1"

ConnPresences(t) == { p \in Presences(t) : p.id = ConnUser /\ p.isActive }

conn_accept(p) ==
    /\ conn.inbound = "none"
    /\ CanCall(MaxConnCalls)
    /\ add_user(p)!1
    /\ add_user(p)!2
    /\ add_user(p)!3
    /\ IF add_user_ret(users, maxUsers) = Ok
       THEN /\ conn' = [conn EXCEPT !.inbound = "running", !.outbound = "running"]
            /\ rx' = [rx EXCEPT ![ConnSub] = subscribe_rx(tx')]
       ELSE UNCHANGED << conn, rx >>
    /\ UNCHANGED << maxUsers, createdAt, now, th, lock, cs >>

\* the inbound loop relays a cursor move of its client
inbound_cursor(c) ==
    /\ conn.inbound = "running"
    /\ CanCall(MaxConnCalls)
    /\ update_cursor(ConnUser, c)

\* a cursor move relayed for another client
other_cursor(c) ==
    /\ CanCall(MaxConnCalls)
    /\ update_cursor("u2", c)

\* the outbound loop forwards the next bus message to the socket
outbound_forward ==
    /\ conn.outbound = "running"
    /\ ~lagging(tx, rx[ConnSub])
    /\ recv(ConnSub)

\* the subscription signals lag: the outbound loop ends
outbound_lagged ==
    /\ conn.outbound = "running"
    /\ lagging(tx, rx[ConnSub])
    /\ rx' = [rx EXCEPT ![ConnSub] = recv_rx(tx, rx[ConnSub])]
    /\ conn' = [conn EXCEPT !.outbound = "ended"]
    /\ UNCHANGED << users, maxUsers, createdAt, tx, now, hist, th, lock, cs >>

\* socket close or error, explicit Leave, or the other loop having ended
loop_end(l) ==
    /\ conn[l] = "running"
    /\ conn' = [conn EXCEPT ![l] = "ended"]
    /\ UNCHANGED << users, maxUsers, createdAt, tx, now, hist, th, lock, cs, rx >>

\* mutant: each loop issues the leave when it exits
should_leave_always(left) == TRUE

\* the leave is issued by the first loop that exits
should_leave(left) == ~left

loop_exit(l) ==
    /\ conn[l] = "ended"
    /\ conn' = [conn EXCEPT ![l] = "done", !.left = TRUE]
    /\ IF should_leave(conn.left)
       THEN /\ users' = remove_user_users(users, ConnUser)
            /\ tx' = remove_user_tx(tx, users, ConnUser)
            /\ hist' = Append(hist, Call("remove_user", ConnUser, Unit))
       ELSE UNCHANGED << users, tx, hist >>
    /\ UNCHANGED << maxUsers, createdAt, now, th, lock, cs, rx >>

Loops == {"inbound", "outbound"}

NextConn ==
    \/ \E p \in ConnPresences(now) : conn_accept(p)
    \/ inbound_cursor(c1)
    \/ other_cursor(c1)
    \/ outbound_forward
    \/ outbound_lagged
    \/ \E l \in Loops : loop_end(l)
    \/ \E l \in Loops : loop_exit(l)

SpecConn == Init /\ [][NextConn]_vars

\* ------------------------------------- add_user, statement by statement
\* callers inside add_user: between the call and the return
in_flight == { t \in Threads : th[t].pc \notin {"idle", "done"} }

\* a caller enters add_user(presence); snap and peers record what the store
\* held and which other calls were pending at that moment
add_user_call(t, p) ==
    /\ th[t].pc \in {"idle", "done"}
    /\ Len(hist) + Cardinality(in_flight) < MaxRaceCalls
    /\ th' = [u \in Threads |->
                IF u = t
                THEN [pc |-> "lock", presence |-> Some(p), ret |-> None,
                      snap |-> DOMAIN users, peers |-> in_flight]
                ELSE [th[u] EXCEPT !.peers = @ \ {t}]]
    /\ UNCHANGED << users, maxUsers, createdAt, tx, now, hist, lock, rx, cs, conn >>

\* mutant: the map is entered without waiting for the guard
write_granted_unguarded(l) == TRUE

\* line 169: self.users.write() returns once no other guard is held
write_granted(l) == l = "free"

add_user_lock(t) ==
    /\ th[t].pc = "lock"
    /\ write_granted(lock)
    /\ lock' = t
    /\ th' = [th EXCEPT ![t].pc = "check"]
    /\ UNCHANGED << users, maxUsers, createdAt, tx, now, hist, rx, cs, conn >>

\* lines 171-173: the capacity check; the early return drops the guard
add_user_check(t) ==
    /\ th[t].pc = "check"
    /\ IF SessionFull(users, maxUsers)
       THEN /\ th' = [th EXCEPT ![t].pc = "done", ![t].ret = Some(SessionFullErr)]
            /\ hist' = Append(hist, Call("add_user", th[t].presence[1], SessionFullErr))
            /\ lock' = "free"
       ELSE /\ th' = [th EXCEPT ![t].pc = "insert"]
            /\ UNCHANGED << hist, lock >>
    /\ UNCHANGED << users, maxUsers, createdAt, tx, now, rx, cs, conn >>

\* line 175
add_user_insert(t) ==
    /\ th[t].pc = "insert"
    /\ users' = insert(users, th[t].presence[1])
    /\ th' = [th EXCEPT ![t].pc = "send"]
    /\ UNCHANGED << maxUsers, createdAt, tx, now, hist, lock, rx, cs, conn >>

\* lines 178-179
add_user_send(t) ==
    /\ th[t].pc = "send"
    /\ tx' = send(tx, UserJoin(th[t].presence[1]))
    /\ th' = [th EXCEPT ![t].pc = "return"]
    /\ UNCHANGED << users, maxUsers, createdAt, now, hist, lock, rx, cs, conn >>

\* lines 181-182: Ok(()) and the guard goes out of scope
add_user_return(t) ==
    /\ th[t].pc = "return"
    /\ th' = [th EXCEPT ![t].pc = "done", ![t].ret = Some(Ok)]
    /\ hist' = Append(hist, Call("add_user", th[t].presence[1], Ok))
    /\ lock' = "free"
    /\ UNCHANGED << users, maxUsers, createdAt, tx, now, rx, cs, conn >>

NextRace ==
    \/ \E t \in Threads, p \in Presences(now) : add_user_call(t, p)
    \/ \E t \in Threads : add_user_lock(t)
    \/ \E t \in Threads : add_user_check(t)
    \/ \E t \in Threads : add_user_insert(t)
    \/ \E t \in Threads : add_user_send(t)
    \/ \E t \in Threads : add_user_return(t)

SpecRace == Init /\ [][NextRace]_vars

\* ----------------------------- concurrent callers, receivers that stall
\* the calls the two callers make: every mutating method, on user u1
LiveCalls ==
    { << "add_user", p >> : p \in BusPresences(0) }
    \cup { << "remove_user", "u1" >>, << "mark_inactive", "u1" >>,
           << "update_cursor", << "u1", c1 >> >>,
           << "batch_cursor_updates", << << "u1", c1 >> >> >>,
           << "cleanup_inactive", << 0, 0 >> >> }

pending == { t \in Threads : cs[t].pc # "idle" }

\* a caller enters a method and asks for the write guard on its first line
live_call(t, op, arg) ==
    /\ cs[t].pc = "idle"
    /\ Len(hist) + Cardinality(pending) < MaxLiveCalls
    /\ cs' = [cs EXCEPT ![t] = [pc |-> "waiting", op |-> op, arg |-> arg]]
    /\ UNCHANGED << users, maxUsers, createdAt, tx, now, hist, th, lock, rx, conn >>

live_lock(t) ==
    /\ cs[t].pc = "waiting"
    /\ write_granted(lock)
    /\ lock' = t
    /\ cs' = [cs EXCEPT ![t].pc = "locked"]
    /\ UNCHANGED << users, maxUsers, createdAt, tx, now, hist, th, rx, conn >>

\* mutant: the sender hands a message over only once every receiver has
\* taken the one before it
can_send_after_receivers(bus, r) ==
    \A s \in Subs : r[s].open => backlog(bus, r[s]) = 0

\* self.tx.send(msg) is a plain call in a non-async method: it returns
\* whatever the receivers have or have not read
can_send(bus, r) == TRUE

\* the method's body under the guard, its send, and the return that drops
\* the guard
live_effect(op, arg) ==
    CASE op = "add_user" ->
           /\ users' = add_user_users(users, maxUsers, arg)
           /\ tx' = add_user_tx(tx, users, maxUsers, arg)
           /\ hist' = Append(hist, Call(op, arg, add_user_ret(users, maxUsers)))
      [] op = "remove_user" ->
           /\ users' = remove_user_users(users, arg)
           /\ tx' = remove_user_tx(tx, users, arg)
           /\ hist' = Append(hist, Call(op, arg, Unit))
      [] op = "mark_inactive" ->
           /\ users' = mark_inactive_users(users, arg)
           /\ tx' = mark_inactive_tx(tx, users, arg)
           /\ hist' = Append(hist, Call(op, arg, Unit))
      [] op = "update_cursor" ->
           /\ users' = update_cursor_users(users, arg[1], arg[2], now)
           /\ tx' = update_cursor_tx(tx, users, arg[1], arg[2])
           /\ hist' = Append(hist, Call(op, arg, Unit))
      [] op = "batch_cursor_updates" ->
           /\ users' = batch_apply(users, arg, now)
           /\ tx' = batch_cursor_updates_tx(tx, arg)
           /\ hist' = Append(hist, Call(op, arg, Unit))
      [] OTHER ->
           /\ \E order \in Orders(to_remove(users, arg[2], arg[1])) :
                  /\ users' = remove_each(users, order)
                  /\ tx' = cleanup_inactive_tx(tx, order)
           /\ hist' = Append(hist, Call(op, arg, Unit))

live_body(t) ==
    /\ cs[t].pc = "locked"
    /\ lock = t
    /\ can_send(tx, rx)
    /\ live_effect(cs[t].op, cs[t].arg)
    /\ lock' = "free"
    /\ cs' = [cs EXCEPT ![t] = Idle]
    /\ UNCHANGED << maxUsers, createdAt, now, th, rx, conn >>

NextLive ==
    \/ \E t \in Threads, call \in LiveCalls : live_call(t, call[1], call[2])
    \/ \E t \in Threads : live_lock(t)
    \/ \E t \in Threads : live_body(t)

\* a new session to which none, one or both receivers have subscribed; no
\* receiver ever calls recv
InitLive ==
    /\ users = << >>
    /\ maxUsers \in 0 .. MaxCap
    /\ createdAt = 0
    /\ tx = << >>
    /\ now = 0
    /\ hist = << >>
    /\ th = [t \in Threads |->
               [pc |-> "idle", presence |-> None, ret |-> None, snap |-> {}, peers |-> {}]]
    /\ lock = "free"
    /\ rx \in [Subs -> {NoReceiver, subscribe_rx(tx)}]
    /\ cs = [t \in Threads |-> Idle]
    /\ conn = NoConnection

\* parking_lot's RwLock hands the guard to every waiter eventually, and a
\* caller that holds the guard keeps running
Fairness ==
    \A t \in Threads : SF_vars(live_lock(t)) /\ WF_vars(live_body(t))

SpecLive == InitLive /\ [][NextLive]_vars /\ Fairness

\* --------------------- joins and leaves of two callers, step by step
\* add_user and remove_user change the map and send under one write guard:
\* the guard is taken on the first line and dropped at the return
OrderCalls ==
    { << "add_user", p >> : p \in { q \in Presences(0) : q.id \in ColorIds /\ q.isActive } }
    \cup { << "remove_user", id >> : id \in ColorIds }

busy == { t \in Threads : cs[t].pc # "idle" }

order_call(t, op, arg) ==
    /\ cs[t].pc = "idle"
    /\ Len(hist) + Cardinality(busy) < MaxOrderCalls
    /\ cs' = [cs EXCEPT ![t] = [pc |-> "waiting", op |-> op, arg |-> arg]]
    /\ UNCHANGED << users, maxUsers, createdAt, tx, now, hist, th, lock, rx, conn >>

order_lock(t) ==
    /\ cs[t].pc = "waiting"
    /\ write_granted(lock)
    /\ lock' = t
    /\ cs' = [cs EXCEPT ![t].pc = "locked"]
    /\ UNCHANGED << users, maxUsers, createdAt, tx, now, hist, th, rx, conn >>

\* mutant: the guard is a temporary that is dropped before the send
guard_while_sending_dropped(t) == "free"

\* the guard `users` lives to the end of the method, across the send
guard_while_sending(t) == t

\* lines 171-175 and 187: the map is changed; a full session returns here
order_mutate(t) ==
    /\ cs[t].pc = "locked"
    /\ lock = t
    /\ IF cs[t].op = "add_user" /\ SessionFull(users, maxUsers)
       THEN /\ hist' = Append(hist, Call("add_user", cs[t].arg, SessionFullErr))
            /\ lock' = "free"
            /\ cs' = [cs EXCEPT ![t] = Idle]
            /\ UNCHANGED users
       ELSE /\ users' = IF cs[t].op = "add_user"
                        THEN add_user_users(users, maxUsers, cs[t].arg)
                        ELSE remove_user_users(users, cs[t].arg)
            /\ lock' = guard_while_sending(t)
            /\ cs' = [cs EXCEPT ![t].pc = "send"]
            /\ UNCHANGED hist
    /\ UNCHANGED << maxUsers, createdAt, tx, now, th, rx, conn >>

\* lines 178-181 and 190-193: the message is sent and the method returns
order_send(t) ==
    /\ cs[t].pc = "send"
    /\ tx' = IF cs[t].op = "add_user"
             THEN send(tx, UserJoin(cs[t].arg))
             ELSE send(tx, UserLeave(cs[t].arg))
    /\ hist' = Append(hist, Call(cs[t].op, cs[t].arg,
                                 IF cs[t].op = "add_user" THEN Ok ELSE Unit))
    /\ lock' = IF lock = t THEN "free" ELSE lock
    /\ cs' = [cs EXCEPT ![t] = Idle]
    /\ UNCHANGED << users, maxUsers, createdAt, now, th, rx, conn >>

NextOrder ==
    \/ \E t \in Threads, call \in OrderCalls : order_call(t, call[1], call[2])
    \/ \E t \in Threads : order_lock(t)
    \/ \E t \in Threads : order_mutate(t)
    \/ \E t \in Threads : order_send(t)

SpecOrder == Init /\ [][NextOrder]_vars

\* ------------------------ a batch applied entry by entry, with observers
\* u1 and u2 have joined a session for two; one caller applies a batch of
\* cursor updates entry by entry under the write guard while the other
\* reads the store or changes it
TwoJoined ==
    add_user_users(add_user_users(<< >>, MaxCap, UserPresence_new("u1", "Alice", get_user_color(0), 0)),
                   MaxCap, UserPresence_new("u2", "Bob", get_user_color(1), 0))

InitBatch ==
    /\ users = TwoJoined
    /\ maxUsers = MaxCap
    /\ createdAt = 0
    /\ tx = << UserJoin(TwoJoined["u1"]), UserJoin(TwoJoined["u2"]) >>
    /\ now = 0
    /\ hist = << Call("add_user", TwoJoined["u1"], Ok), Call("add_user", TwoJoined["u2"], Ok) >>
    /\ th = [t \in Threads |->
               [pc |-> "idle", presence |-> None, ret |-> None, snap |-> {}, peers |-> {}]]
    /\ lock = "free"
    /\ rx = [s \in Subs |-> NoReceiver]
    /\ cs = [t \in Threads |-> Idle]
    /\ conn = NoConnection

TheBatch == << << "u1", c1 >>, << "u3", c1 >>, << "u2", c2 >> >>

\* for a batch, arg carries the entries still to apply next to the batch
BatchCalls ==
    { << "batch_cursor_updates", [updates |-> TheBatch, rest |-> TheBatch] >>,
      << "update_cursor", << "u2", c1 >> >>,
      << "remove_user", "u1" >>,
      << "cleanup_inactive", << 0, 0 >> >>,
      << "get_users", Unit >>,
      << "get_user", "u2" >>,
      << "info", Unit >> }

ReadOps == {"get_users", "get_user", "info"}

batch_call(t, op, arg) ==
    /\ cs[t].pc = "idle"
    /\ Len(hist) + Cardinality(busy) < MaxBatchCalls
    /\ cs' = [cs EXCEPT ![t] = [pc |-> "waiting", op |-> op, arg |-> arg]]
    /\ UNCHANGED << users, maxUsers, createdAt, tx, now, hist, th, lock, rx, conn >>

\* mutant: the readers look at the map without asking for the read guard
read_granted_unguarded(l) == TRUE

\* self.users.read() returns once no write guard is held
read_granted(l) == l = "free"

\* lines 240-259: a read under the read guard
read_call(t) ==
    /\ cs[t].pc = "waiting"
    /\ cs[t].op \in ReadOps
    /\ read_granted(lock)
    /\ hist' = Append(hist, Call(cs[t].op, cs[t].arg,
                 CASE cs[t].op = "get_users" -> get_users_ret(users)
                   [] cs[t].op = "get_user" -> get_user_ret(users, cs[t].arg)
                   [] OTHER -> info_ret(users, createdAt)))
    /\ cs' = [cs EXCEPT ![t] = Idle]
    /\ UNCHANGED << users, maxUsers, createdAt, tx, now, th, lock, rx, conn >>

write_lock(t) ==
    /\ cs[t].op \notin ReadOps
    /\ order_lock(t)

\* update_cursor, remove_user, cleanup_inactive: body, send and return
write_body(t) ==
    /\ cs[t].op \notin ReadOps \cup {"batch_cursor_updates"}
    /\ live_body(t)

\* lines 228-233: one turn of the loop over the batch
batch_apply_one(t) ==
    /\ cs[t].pc = "locked"
    /\ lock = t
    /\ cs[t].op = "batch_cursor_updates"
    /\ cs[t].arg.rest # << >>
    /\ users' = set_cursor(users, Head(cs[t].arg.rest)[1], Head(cs[t].arg.rest)[2], now)
    /\ cs' = [cs EXCEPT ![t].arg.rest = Tail(@)]
    /\ UNCHANGED << maxUsers, createdAt, tx, now, hist, th, lock, rx, conn >>

\* lines 235-237: the CursorBatch is sent and the method returns
batch_send(t) ==
    /\ cs[t].pc = "locked"
    /\ lock = t
    /\ cs[t].op = "batch_cursor_updates"
    /\ cs[t].arg.rest = << >>
    /\ tx' = batch_cursor_updates_tx(tx, cs[t].arg.updates)
    /\ hist' = Append(hist, Call("batch_cursor_updates", cs[t].arg.updates, Unit))
    /\ lock' = "free"
    /\ cs' = [cs EXCEPT ![t] = Idle]
    /\ UNCHANGED << users, maxUsers, createdAt, now, th, rx, conn >>

NextBatch ==
    \/ \E t \in Threads, call \in BatchCalls : batch_call(t, call[1], call[2])
    \/ \E t \in Threads : read_call(t)
    \/ \E t \in Threads : write_lock(t)
    \/ \E t \in Threads : write_body(t)
    \/ \E t \in Threads : batch_apply_one(t)
    \/ \E t \in Threads : batch_send(t)

SpecBatch == InitBatch /\ [][NextBatch]_vars

\* ================================================================ claims
Last(q) == q[Len(q)]

\* this step completes a call of op: it appends the call to hist
Completes(op) == Len(hist') = Len(hist) + 1 /\ Last(hist').op = op

\* exactly one message, m, is published by this step
PublishesOnly(m) == tx' = Append(tx, m)

\* C1: in every reachable state the user map holds at most maxUsers records.
C1_CapacityInvariant == len(users) <= maxUsers

\* a full session that has just turned a join away
C1_Witness ==
    /\ maxUsers > 0
    /\ len(users) = maxUsers
    /\ hist # << >>
    /\ Last(hist).op = "add_user"
    /\ Last(hist).ret = SessionFullErr

\* t and u are two add_user calls for distinct ids, neither in the store, that
\* were both pending while exactly one slot remained
RacingForLastSlot(t, u) ==
    /\ t # u
    /\ u \in th[t].peers
    /\ th[t].presence # None /\ th[u].presence # None
    /\ th[t].presence[1].id # th[u].presence[1].id
    /\ th[t].presence[1].id \notin th[t].snap
    /\ th[u].presence[1].id \notin th[t].snap
    /\ Cardinality(th[t].snap) = maxUsers - 1

\* C2: of two concurrent add_user calls for distinct new ids with one slot
\* left, exactly one returns Ok and exactly one returns the session-full error.
C2_OneSlotRace ==
    \A t, u \in Threads :
        (RacingForLastSlot(t, u) /\ th[t].pc = "done" /\ th[u].pc = "done")
            => { th[t].ret, th[u].ret } = { Some(Ok), Some(SessionFullErr) }

\* both racing calls have returned, with a record already stored before them
C2_Witness ==
    \E t, u \in Threads :
        /\ RacingForLastSlot(t, u)
        /\ th[t].pc = "done" /\ th[u].pc = "done"
        /\ maxUsers = 2

\* ---------------------------------------------------------------- C3
AllJoins == \A i \in DOMAIN hist : hist[i].op = "add_user"

DistinctJoinIds ==
    \A i, j \in DOMAIN hist : i # j => hist[i].arg.id # hist[j].arg.id

ActiveJoins == \A i \in DOMAIN hist : hist[i].arg.isActive

FirstSucceedLastFails ==
    /\ \A i \in 1 .. maxUsers : hist[i].ret = Ok
    /\ hist[maxUsers + 1].ret = SessionFullErr
    /\ Cardinality(get_users_ret(users)) = maxUsers

\* C3 as stated: after maxUsers+1 join attempts on a fresh session the first
\* maxUsers succeeded, the last failed and the roster has maxUsers entries.
C3_Original ==
    (AllJoins /\ Len(hist) = maxUsers + 1) => FirstSucceedLastFails

\* C3 (amended): after maxUsers+1 join attempts on a fresh session, for
\* pairwise distinct ids and active presences, the first maxUsers succeeded,
\* the last failed with the session-full error and the roster has exactly
\* maxUsers entries.
C3_DistinctJoins ==
    (AllJoins /\ Len(hist) = maxUsers + 1 /\ DistinctJoinIds /\ ActiveJoins)
        => FirstSucceedLastFails

\* the scenario of test_max_users_limit: maxUsers = 2 and three distinct users
C3_Witness ==
    /\ maxUsers = 2
    /\ Len(hist) = 3
    /\ AllJoins /\ DistinctJoinIds /\ ActiveJoins

\* ---------------------------------------------------------------- C4
\* C4: a join turned away leaves the user map as it was and publishes
\* nothing; a UserJoin is published only by a join that succeeds.
C4_FailedJoinSilent ==
    [][ /\ (Completes("add_user") /\ Last(hist').ret = SessionFullErr)
            => (users' = users /\ tx' = tx)
        /\ (tx' # tx /\ Last(tx').type = "user_join")
            => (Completes("add_user") /\ Last(hist').ret = Ok) ]_vars

\* a join was turned away from a session that holds a user
C4_Witness ==
    /\ hist # << >>
    /\ Last(hist).op = "add_user"
    /\ Last(hist).ret = SessionFullErr
    /\ len(users) > 0
    /\ Len(tx) = 1

\* ---------------------------------------------------------------- C5
MessageKind(op) ==
    CASE op = "add_user" -> "user_join"
      [] op = "remove_user" -> "user_leave"
      [] op = "mark_inactive" -> "user_inactive"
      [] op = "update_cursor" -> "cursor_move"
      [] op = "batch_cursor_updates" -> "cursor_batch"
      [] OTHER -> "none"

Mutators ==
    { "add_user", "remove_user", "mark_inactive", "update_cursor",
      "batch_cursor_updates" }

Readers == { "get_users", "get_user", "info" }

\* C5: every successful mutating call publishes exactly one message, of its
\* own kind; the read operations publish nothing and leave the map unchanged.
C5_OneMessagePerMutation ==
    [][ /\ \A op \in Mutators :
              (Completes(op) /\ Last(hist').ret # SessionFullErr)
                  => /\ Len(tx') = Len(tx) + 1
                     /\ SubSeq(tx', 1, Len(tx)) = tx
                     /\ Last(tx').type = MessageKind(op)
        /\ \A op \in Readers :
              Completes(op) => (tx' = tx /\ users' = users) ]_vars

\* an inactivity mark for an absent id, then a read: one message in all
C5_Witness ==
    /\ Len(hist) = 2
    /\ hist[1].op = "mark_inactive"
    /\ hist[2].op = "get_users"
    /\ users = << >>
    /\ Len(tx) = 1

\* ---------------------------------------------------------------- C6
\* C6: remove_user(id) returns normally, leaves id absent, leaves every other
\* record as it was, and changes nothing when id is already absent.
C6_RemoveIdempotent ==
    [][ Completes("remove_user") =>
          LET id == Last(hist').arg IN
          /\ Last(hist').ret = Unit
          /\ DOMAIN users' = (DOMAIN users) \ {id}
          /\ \A j \in DOMAIN users' : users'[j] = users[j]
          /\ (id \notin DOMAIN users => users' = users) ]_vars

\* remove_user was called twice for the same id
C6_Witness ==
    /\ Len(hist) = 2
    /\ hist[1].op = "remove_user"
    /\ hist[2].op = "remove_user"
    /\ hist[1].arg = hist[2].arg

\* ---------------------------------------------------------------- C7
LeavesPublished(id) ==
    Cardinality({ i \in DOMAIN tx : tx[i].type = "user_leave" /\ tx[i].userId = id })

RemovesCalled(id) ==
    Cardinality({ i \in DOMAIN hist : hist[i].op = "remove_user" /\ hist[i].arg = id })

\* C7: for every id, as many UserLeave messages carrying it were published
\* as remove_user calls were made for it, whether or not it was in the store.
C7_LeaveAlwaysPublished ==
    \A id \in Ids : LeavesPublished(id) = RemovesCalled(id)

\* two remove_user calls for an id that never joined, two UserLeave messages
C7_Witness ==
    \E id \in Ids :
        /\ RemovesCalled(id) = 2
        /\ LeavesPublished(id) = 2
        /\ \A i \in DOMAIN hist : hist[i].op # "add_user"

\* ---------------------------------------------------------------- C8
\* the call names id: it is an operation on that user
OnId(c, id) ==
    CASE c.op = "add_user" -> c.arg.id = id
      [] c.op \in { "remove_user", "mark_inactive", "get_user" } -> c.arg = id
      [] c.op = "update_cursor" -> c.arg[1] = id
      [] c.op = "batch_cursor_updates" -> \E k \in DOMAIN c.arg : c.arg[k][1] = id
      [] OTHER -> FALSE

\* hist[i] is a successful join of u, the latest call is moveCursor(u.id, c)
\* and no call between them names u.id
JoinThenMove(i) ==
    /\ i < Len(hist)
    /\ hist[i].op = "add_user" /\ hist[i].ret = Ok
    /\ Last(hist).op = "update_cursor"
    /\ Last(hist).arg[1] = hist[i].arg.id
    /\ \A k \in (i + 1) .. (Len(hist) - 1) : ~OnId(hist[k], hist[i].arg.id)

RosterHasCursor(id, c) ==
    \E r \in get_users_ret(users) : r.id = id /\ r.cursor = Some(c)

\* C8 as stated: right after join(u) then moveCursor(u.id, c), with no call
\* on u.id between them, the roster holds u.id with cursor c.
C8_Original ==
    \A i \in DOMAIN hist :
        JoinThenMove(i) => RosterHasCursor(hist[i].arg.id, Last(hist).arg[2])

NoReapSince(i) ==
    \A k \in (i + 1) .. (Len(hist) - 1) : hist[k].op # "cleanup_inactive"

\* C8 (amended): the same, for a presence that joined with isActive = true
\* and with no cleanup_inactive call between the join and the move.
C8_ActiveJoinThenMove ==
    \A i \in DOMAIN hist :
        (JoinThenMove(i) /\ hist[i].arg.isActive /\ NoReapSince(i))
            => RosterHasCursor(hist[i].arg.id, Last(hist).arg[2])

\* an active user joined and then moved its cursor
C8_Witness ==
    /\ Len(hist) = 2
    /\ JoinThenMove(1)
    /\ hist[1].arg.isActive

\* ---------------------------------------------------------------- C9
\* C9: update_cursor for an id that is not stored leaves the map unchanged
\* and publishes exactly one CursorMove for it; an id that is not stored
\* enters the map (and so a later roster) only by a successful add_user.
C9_GhostCursorMove ==
    [][ /\ (Completes("update_cursor") /\ Last(hist').arg[1] \notin DOMAIN users)
            => /\ users' = users
               /\ PublishesOnly(CursorMove(Last(hist').arg[1], Last(hist').arg[2]))
        /\ \A id \in Ids :
              (id \notin DOMAIN users /\ id \in DOMAIN users')
                  => /\ Completes("add_user")
                     /\ Last(hist').arg.id = id
                     /\ Last(hist').ret = Ok ]_vars

\* a cursor move for an unknown id, then an empty roster
C9_Witness ==
    /\ Len(hist) = 2
    /\ hist[1].op = "update_cursor"
    /\ hist[2].op = "get_users"
    /\ hist[2].ret = {}
    /\ Len(tx) = 1
    /\ tx[1].type = "cursor_move"

\* --------------------------------------------------------------- C10
Stale(us, t, timeout) == { id \in DOMAIN us : t - us[id].lastSeen > timeout }

\* C10: cleanup_inactive(timeout) that read the clock as now removes exactly
\* the users with now - lastSeen > timeout, keeps every other record as it
\* was (also the inactive ones and those with now - lastSeen = timeout), and
\* every order of removing them gives the same map.
C10_ReapExactlyStale ==
    [][ Completes("cleanup_inactive") =>
          LET gone == Stale(users, Last(hist').arg[2], Last(hist').arg[1]) IN
          /\ DOMAIN users' = (DOMAIN users) \ gone
          /\ \A id \in DOMAIN users' : users'[id] = users[id]
          /\ \A order \in Orders(gone) : remove_each(users, order) = users' ]_vars

\* the reaper has just evicted one of two joined users and kept the other,
\* an inactive one whose age equals the timeout
C10_Witness ==
    /\ Len(hist) = 3
    /\ hist[1].op = "add_user" /\ hist[1].ret = Ok
    /\ hist[2].op = "add_user" /\ hist[2].ret = Ok
    /\ hist[1].arg.id # hist[2].arg.id
    /\ hist[3].op = "cleanup_inactive"
    /\ \E id \in DOMAIN users :
          /\ DOMAIN users = {id}
          /\ ~users[id].isActive
          /\ hist[3].arg[2] - users[id].lastSeen = hist[3].arg[1]


\* --------------------------------------------------------------- C11
\* C11: what get_users() returns is exactly the stored records whose
\* isActive flag is true: no inactive record, no record that is not stored,
\* and every stored active record.
C11_RosterIsActiveRecords ==
    (hist # << >> /\ Last(hist).op = "get_users") =>
        /\ \A id \in DOMAIN users :
              (users[id] \in Last(hist).ret) <=> users[id].isActive
        /\ \A r \in Last(hist).ret : r.id \in DOMAIN users /\ users[r.id] = r

\* two users joined active, one was marked inactive, then the roster was read
C11_Witness ==
    /\ Len(hist) = 4
    /\ hist[1].op = "add_user" /\ hist[1].ret = Ok /\ hist[1].arg.isActive
    /\ hist[2].op = "add_user" /\ hist[2].ret = Ok /\ hist[2].arg.isActive
    /\ hist[3].op = "mark_inactive" /\ hist[3].arg = hist[1].arg.id
    /\ hist[4].op = "get_users"
    /\ Cardinality(hist[4].ret) = 1
    /\ len(users) = 2

\* --------------------------------------------------------------- C12
\* C12: the usersCount of the SessionInfo that info() returns equals the
\* number of active users, the length of roster() in the same state.
C12_InfoCountsActive ==
    (hist # << >> /\ Last(hist).op = "info") =>
        Last(hist).ret.usersCount = Cardinality(get_users_ret(users))


\* --------------------------------------------------------------- C13
\* C13: mark_inactive(id) on a present id changes only that record's
\* isActive flag, to false: the record stays in the map and get_user still
\* returns it, its name, color, cursor and lastSeen are unchanged, the number
\* of records is unchanged and no other record changes.
C13_MarkInactiveFrame ==
    [][ (Completes("mark_inactive") /\ Last(hist').arg \in DOMAIN users) =>
          LET id == Last(hist').arg IN
          /\ DOMAIN users' = DOMAIN users
          /\ len(users') = len(users)
          /\ users'[id] = [users[id] EXCEPT !.isActive = FALSE]
          /\ get_user_ret(users', id) = Some(users'[id])
          /\ \A o \in DOMAIN users \ {id} : users'[o] = users[o]
      ]_vars

\* a user that joined at time 0 is flagged after the clock moved on
C13_Witness ==
    /\ Len(hist) = 2
    /\ hist[1].op = "add_user" /\ hist[1].ret = Ok /\ hist[1].arg.isActive
    /\ hist[2].op = "mark_inactive" /\ hist[2].arg = hist[1].arg.id
    /\ now = 1
    /\ hist[2].arg \in DOMAIN users
    /\ ~users[hist[2].arg].isActive
    /\ users[hist[2].arg].lastSeen = 0

\* --------------------------------------------------------------- C14
\* C14: batch_cursor_updates(updates) sets the cursor of every id of the
\* batch that is in the map (to the cursor of the id's last entry), skips
\* each absent id without creating a record and without stopping the rest,
\* and publishes exactly one CursorBatch carrying the batch as given.
BatchIds(updates) == { updates[i][1] : i \in DOMAIN updates }

LastCursorFor(updates, id) ==
    LET k == CHOOSE i \in DOMAIN updates :
                 /\ updates[i][1] = id
                 /\ \A j \in DOMAIN updates : updates[j][1] = id => j <= i
    IN  updates[k][2]

C14_BatchAppliesPresentOnly ==
    [][ Completes("batch_cursor_updates") =>
          LET updates == Last(hist').arg IN
          /\ DOMAIN users' = DOMAIN users
          /\ \A id \in DOMAIN users :
                users'[id] =
                    IF id \in BatchIds(updates)
                    THEN [users[id] EXCEPT
                            !.cursor = Some(LastCursorFor(updates, id)),
                            !.lastSeen = now]
                    ELSE users[id]
          /\ tx' = Append(tx, CursorBatch(updates))
      ]_vars

\* the batch names absent u1 first and present u2 second
C14_Witness ==
    /\ Len(hist) = 2
    /\ hist[1].op = "add_user" /\ hist[1].ret = Ok /\ hist[1].arg.id = "u2"
    /\ hist[2].op = "batch_cursor_updates"
    /\ hist[2].arg = << << "u1", c1 >>, << "u2", c2 >> >>
    /\ DOMAIN users = {"u2"}
    /\ users["u2"].cursor = Some(c2)
    /\ Last(tx) = CursorBatch(hist[2].arg)

\* --------------------------------------------------------------- C20
\* C20: a step that increases the number of records in the user map is a
\* successful add_user; no other operation increases it, also when it is
\* called with ids that are not present.
C20_OnlyJoinGrows ==
    [][ len(users') > len(users) =>
          Completes("add_user") /\ Last(hist').ret = Ok ]_vars

\* a cursor update for an absent id left the map empty, then the id joined
C20_Witness ==
    /\ Len(hist) = 2
    /\ hist[1].op = "update_cursor"
    /\ hist[2].op = "add_user" /\ hist[2].ret = Ok
    /\ hist[2].arg.id = hist[1].arg[1]
    /\ len(users) = 1


\* --------------------------------------------------------------- C15
\* C15: a receiver that has not lagged has received the messages sent after
\* its subscription in the order they were sent, each once and as sent: its
\* i-th receive is the i-th message sent after it subscribed.
NeverLagged(r) == \A i \in DOMAIN r.got : r.got[i].kind = "Ok"

C15_InOrderOnceVerbatim ==
    \A s \in Subs :
        (rx[s].open /\ NeverLagged(rx[s])) =>
            /\ rx[s].since + Len(rx[s].got) <= Len(tx)
            /\ \A i \in DOMAIN rx[s].got :
                  /\ rx[s].got[i].pos = rx[s].since + i
                  /\ rx[s].got[i].msg = tx[rx[s].since + i]

\* a receiver read three messages of two kinds while behind by at most two
C15_Witness ==
    \E s \in Subs :
        /\ rx[s].open /\ NeverLagged(rx[s])
        /\ Len(rx[s].got) = 3
        /\ rx[s].got[1].msg # rx[s].got[2].msg
        /\ Len(tx) = rx[s].since + 4

\* --------------------------------------------------------------- C16
\* C16: a receiver that subscribed after N messages had been sent never
\* receives any of those N: every message it receives was sent after its
\* subscription.
C16_NoReplay ==
    \A s \in Subs : \A i \in DOMAIN rx[s].got :
        rx[s].got[i].kind = "Ok" =>
            /\ rx[s].got[i].pos > rx[s].since
            /\ rx[s].got[i].msg = tx[rx[s].got[i].pos]

\* two messages were sent before the subscription and one was read after it
C16_Witness ==
    \E s \in Subs :
        /\ rx[s].open
        /\ rx[s].since = 2
        /\ Len(rx[s].got) = 1
        /\ rx[s].got[1] = RecvOk(3, tx[3])


\* --------------------------------------------------------------- C17
\* a recv of receiver s completes in this step
Receives(s) == rx[s].open /\ Len(rx'[s].got) = Len(rx[s].got) + 1

\* the receives of r after its last lag event returned consecutive
\* positions of the channel, each with the message sent at that position
InOrderAfterLag(r) ==
    \A i \in DOMAIN r.got :
        (i > 1 /\ r.got[i].kind = "Ok") =>
            /\ r.got[i].msg = tx[r.got[i].pos]
            /\ r.got[i - 1].kind = "Ok" => r.got[i].pos = r.got[i - 1].pos + 1
            /\ r.got[i - 1].kind = "Lagged" => r.got[i].pos > r.since + 1

Dropped ==
    { k \in DOMAIN tx : \A s \in Subs : rx[s].open => rx[s].since >= k }

\* C19: with no receiver, a publish drops its message without an error: a
\* join below capacity still stores the presence and returns Ok, a leave
\* still removes the record and returns, and no receiver created later ever
\* receives the dropped message.
C19_DropWithoutError ==
    /\ [][ receiver_count(rx) = 0 =>
             /\ (Completes("add_user") /\ len(users) < maxUsers) =>
                   /\ Last(hist').ret = Ok
                   /\ Last(hist').arg.id \in DOMAIN users'
                   /\ users'[Last(hist').arg.id] = Last(hist').arg
                   /\ Len(tx') = Len(tx) + 1
             /\ Completes("remove_user") =>
                   /\ Last(hist').ret = Unit
                   /\ Last(hist').arg \notin DOMAIN users'
                   /\ Len(tx') = Len(tx) + 1 ]_vars
    /\ [](\A s \in Subs : \A i \in DOMAIN rx[s].got :
             rx[s].got[i].kind = "Ok" => rx[s].got[i].pos \notin Dropped)

\* a join was published to nobody; the receiver created after it has read
\* the next message and not the join
C19_Witness ==
    /\ Len(hist) = 2
    /\ hist[1].op = "add_user" /\ hist[1].ret = Ok
    /\ hist[2].op = "remove_user"
    /\ rx["s1"].open /\ rx["s1"].since = 1
    /\ 1 \in Dropped
    /\ rx["s1"].got = << RecvOk(2, UserLeave("u1")) >>
    /\ users = << >>


\* --------------------------------------------------------------- C18
\* C18: publishing never waits for receivers: with receivers that never
\* read and with callers that contend for the guard, every call of
\* add_user, remove_user, mark_inactive, update_cursor, batch_cursor_updates
\* and cleanup_inactive eventually returns, and whenever a call is pending
\* some caller can take its next step.
C18_EveryCallReturns ==
    /\ \A t \in Threads : (cs[t].pc # "idle") ~> (cs[t].pc = "idle")
    /\ [](pending # {} =>
            ENABLED (\E t \in Threads : live_lock(t) \/ live_body(t)))

\* one caller holds the guard, the other waits for it, and both receivers
\* have left the message of a call that returned unread
C18_Witness ==
    /\ cs["t1"].pc = "locked" /\ cs["t2"].pc = "waiting"
    /\ cs["t1"].op = "cleanup_inactive" /\ cs["t2"].op = "add_user"
    /\ \A s \in Subs : rx[s].open /\ rx[s].got = << >> /\ backlog(tx, rx[s]) = 1
    /\ Len(hist) = 1


\* --------------------------------------------------------------- C21
\* C21: an id leaves the user map only in a remove_user call that names it
\* or in a cleanup_inactive call for which the user is stale (the clock the
\* call read minus lastSeen exceeds the timeout); no other step removes it.
C21_RemovalOnlyByLeaveOrReap ==
    [][ \A id \in DOMAIN users :
          id \notin DOMAIN users' =>
             \/ Completes("remove_user") /\ Last(hist').arg = id
             \/ /\ Completes("cleanup_inactive")
                /\ Last(hist').arg[2] - users[id].lastSeen > Last(hist').arg[1]
      ]_vars

\* a user that joined at time 0 was reaped by a cleanup that read time 1
C21_Witness ==
    /\ Len(hist) = 2
    /\ hist[1].op = "add_user" /\ hist[1].ret = Ok
    /\ hist[1].arg.lastSeen = 0
    /\ hist[2].op = "cleanup_inactive" /\ hist[2].arg = << 0, 1 >>
    /\ users = << >>


\* --------------------------------------------------------------- C22
ColorCalls == { i \in DOMAIN hist : hist[i].op = "get_user_color" }

\* C22: get_user_color(i) is entry i mod 8 of the fixed palette of 8
\* colors; two indices get the same color only if they differ by a multiple
\* of 8, so indices below 8 with the same color are equal and a color
\* repeats only after all 8 were used; the same index always gets the same
\* color, also for a user that left and joins again.
C22_ColorsByIndex ==
    /\ Len(USER_COLORS) = 8
    /\ \A i \in ColorCalls :
          /\ hist[i].ret = USER_COLORS[(hist[i].arg % 8) + 1]
          /\ hist[i + 1].op = "add_user" /\ hist[i + 1].arg.color = hist[i].ret
    /\ \A i, j \in ColorCalls :
          /\ hist[i].ret = hist[j].ret => (hist[i].arg - hist[j].arg) % 8 = 0
          /\ hist[i].arg = hist[j].arg => hist[i].ret = hist[j].ret

\* u1 joins with index 0, u2 with index 1, u1 leaves and joins again with
\* index 0: it holds the index-0 color, u2 another one
C22_Witness ==
    /\ Len(hist) = 7
    /\ hist[1].op = "get_user_color" /\ hist[1].arg = 0
    /\ hist[2].op = "add_user" /\ hist[2].arg.id = "u1" /\ hist[2].ret = Ok
    /\ hist[3].op = "get_user_color" /\ hist[3].arg = 1
    /\ hist[4].op = "add_user" /\ hist[4].arg.id = "u2" /\ hist[4].ret = Ok
    /\ hist[5].op = "remove_user" /\ hist[5].arg = "u1"
    /\ hist[6].op = "get_user_color" /\ hist[6].arg = 0
    /\ hist[7].op = "add_user" /\ hist[7].arg.id = "u1" /\ hist[7].ret = Ok
    /\ users["u1"].color = hist[1].ret
    /\ users["u2"].color # users["u1"].color


C24_RejoinOverwrites ==
    [][ (/\ Completes("add_user")
         /\ Last(hist').arg.id \in DOMAIN users
         /\ len(users) < maxUsers) =>
          LET p == Last(hist').arg IN
          /\ Last(hist').ret = Ok
          /\ users' = [users EXCEPT ![p.id] = p]
          /\ len(users') = len(users)
          /\ tx' = Append(tx, UserJoin(p))
      ]_vars

\* u1 joined at time 0 and joined again, with another presence, at time 1
C24_Witness ==
    /\ Len(hist) = 2
    /\ hist[1].op = "add_user" /\ hist[1].ret = Ok
    /\ hist[2].op = "add_user" /\ hist[2].ret = Ok
    /\ hist[2].arg.id = hist[1].arg.id
    /\ hist[1].arg.lastSeen = 0 /\ hist[2].arg.lastSeen = 1
    /\ hist[1].arg.isActive # hist[2].arg.isActive
    /\ len(users) = 1 /\ maxUsers = 2
    /\ users[hist[2].arg.id] = hist[2].arg
    /\ Len(tx) = 2

\* --------------------------------------------------------------- C25
\* C25: cleanup_inactive publishes nothing: the bus is the same after the
\* call as before it, whatever the call removes.
C25_ReapIsSilent ==
    [][ Completes("cleanup_inactive") => tx' = tx ]_vars

\* two users joined and were both evicted; the bus holds the two joins only
C25_Witness ==
    /\ Len(hist) = 3
    /\ hist[1].op = "add_user" /\ hist[1].ret = Ok
    /\ hist[2].op = "add_user" /\ hist[2].ret = Ok
    /\ hist[1].arg.id # hist[2].arg.id
    /\ hist[3].op = "cleanup_inactive"
    /\ users = << >>
    /\ tx = << UserJoin(hist[1].arg), UserJoin(hist[2].arg) >>

\* --------------------------------------------------------------- C27
\* C27: when maxUsers records are stored, add_user for an id that is
\* already stored fails with the session-full error; the store keeps the
\* old record and every other record, and nothing is published.
C27_RejoinAtCapacityFails ==
    [][ (/\ Completes("add_user")
         /\ Last(hist').arg.id \in DOMAIN users
         /\ len(users) = maxUsers) =>
          /\ Last(hist').ret = SessionFullErr
          /\ users' = users
          /\ tx' = tx
      ]_vars

\* the session holds its one user, who joins again with another presence
C27_Witness ==
    /\ Len(hist) = 2
    /\ maxUsers = 1
    /\ hist[1].op = "add_user" /\ hist[1].ret = Ok
    /\ hist[2].op = "add_user" /\ hist[2].ret = SessionFullErr
    /\ hist[2].arg.id = hist[1].arg.id
    /\ hist[2].arg # hist[1].arg
    /\ users[hist[1].arg.id] = hist[1].arg
    /\ Len(tx) = 1

\* --------------------------------------------------------------- C28
\* C28: the capacity check counts every stored record, active or not: an
\* add_user fails exactly when maxUsers or more records are stored, so with
\* maxUsers records of which some are flagged inactive a new id is refused
\* although get_users() has fewer than maxUsers entries.
C28_InactiveOccupyCapacity ==
    [][ Completes("add_user") =>
          /\ (Last(hist').ret = SessionFullErr) <=> (len(users) >= maxUsers)
          /\ (/\ len(users) = maxUsers
              /\ Last(hist').arg.id \notin DOMAIN users
              /\ Cardinality(get_users_ret(users)) < maxUsers) =>
                 /\ Last(hist').ret = SessionFullErr
                 /\ users' = users
      ]_vars

\* the only slot is held by a user flagged inactive: the roster is empty
\* and a new id is refused
C28_Witness ==
    /\ Len(hist) = 4
    /\ maxUsers = 1
    /\ hist[1].op = "add_user" /\ hist[1].ret = Ok /\ hist[1].arg.isActive
    /\ hist[2].op = "mark_inactive" /\ hist[2].arg = hist[1].arg.id
    /\ hist[3].op = "get_users" /\ hist[3].ret = {}
    /\ hist[4].op = "add_user" /\ hist[4].ret = SessionFullErr
    /\ hist[4].arg.id # hist[1].arg.id
    /\ DOMAIN users = { hist[1].arg.id }


\* --------------------------------------------------------------- C29
\* C29: no operation reactivates a record: a stored record with isActive
\* false gets isActive true only by a successful add_user for its id; an
\* update_cursor or batch_cursor_updates that names it sets its cursor and
\* lastSeen and leaves isActive false, so get_users() after it does not
\* return the user.
C29_NoReactivation ==
    [][ \A id \in DOMAIN users : ~users[id].isActive =>
          /\ (id \in DOMAIN users' /\ users'[id].isActive) =>
                /\ Completes("add_user")
                /\ Last(hist').arg.id = id /\ Last(hist').ret = Ok
          /\ (Completes("update_cursor") /\ Last(hist').arg[1] = id) =>
                /\ users'[id] = [users[id] EXCEPT
                                   !.cursor = Some(Last(hist').arg[2]),
                                   !.lastSeen = now]
                /\ users'[id] \notin get_users_ret(users')
          /\ (Completes("batch_cursor_updates")
                /\ id \in BatchIds(Last(hist').arg)) =>
                /\ users'[id].cursor = Some(LastCursorFor(Last(hist').arg, id))
                /\ users'[id].lastSeen = now
                /\ ~users'[id].isActive
      ]_vars

\* u1 joined active, was flagged, moved its cursor at time 1 and is not in
\* the roster read after that
C29_Witness ==
    /\ Len(hist) = 4
    /\ hist[1].op = "add_user" /\ hist[1].ret = Ok /\ hist[1].arg.isActive
    /\ hist[2].op = "mark_inactive"
    /\ hist[3].op \in {"update_cursor", "batch_cursor_updates"}
    /\ hist[4].op = "get_users" /\ hist[4].ret = {}
    /\ users["u1"].cursor # None
    /\ users["u1"].lastSeen = 1
    /\ ~users["u1"].isActive


\* --------------------------------------------------------------- C26
\* the set of ids left by the UserJoin and UserLeave messages of the bus,
\* applied in bus order to the empty set
RECURSIVE Replay(_, _)
Replay(bus, ids) ==
    IF bus = << >> THEN ids
    ELSE Replay(Tail(bus),
                CASE Head(bus).type = "user_join" -> ids \cup { Head(bus).user.id }
                  [] Head(bus).type = "user_leave" -> ids \ { Head(bus).userId }
                  [] OTHER -> ids)

\* C26: the messages are on the bus in the order in which the mutations
\* took effect: in a concurrent execution of joins and leaves, whenever no
\* call holds the write guard, replaying the UserJoin and UserLeave
\* messages in bus order from the empty set gives the ids of the user map.
C26_BusOrderIsMutationOrder ==
    lock = "free" => Replay(tx, {}) = DOMAIN users

\* while one caller's leave of u1 waited for the guard, the other caller's
\* join of u1 went through; then the leave did, and both messages are out
C26_Witness ==
    /\ Len(hist) = 3
    /\ \A t \in Threads : cs[t].pc = "idle"
    /\ hist[1].op = "remove_user" /\ hist[1].arg = "u1"
    /\ hist[2].op = "add_user" /\ hist[2].arg.id = "u1" /\ hist[2].ret = Ok
    /\ hist[3].op = "remove_user" /\ hist[3].arg = "u1"
    /\ Len(tx) = 3
    /\ users = << >>


\* --------------------------------------------------------------- C30
\* caller t has applied at least one entry of its batch and has not yet
\* sent the CursorBatch
InBatch(t) ==
    /\ cs[t].op = "batch_cursor_updates"
    /\ cs[t].pc = "locked"
    /\ cs[t].arg.rest # cs[t].arg.updates

\* C30: a batch is atomic to other callers: from its first applied entry
\* to its send, no other call reads the store or acts on it (the only call
\* that completes is the batch itself), only the batch's own steps change
\* the store, and the next message on the bus is its CursorBatch.
C30_BatchIsAtomic ==
    [][ \A t \in Threads : InBatch(t) =>
          /\ hist' # hist =>
                hist' = Append(hist, Call("batch_cursor_updates",
                                          cs[t].arg.updates, Unit))
          /\ users' # users => cs'[t] # cs[t]
          /\ tx' # tx => tx' = Append(tx, CursorBatch(cs[t].arg.updates))
          /\ \A u \in Threads \ {t} : cs'[u].pc = "locked" => cs[u].pc = "locked"
      ]_vars

\* the batch has set u1's cursor, skipped absent u3 and not yet reached u2,
\* while the other caller waits to read the roster
C30_Witness ==
    /\ InBatch("t1")
    /\ Len(cs["t1"].arg.rest) = 1
    /\ users["u1"].cursor = Some(c1)
    /\ users["u2"].cursor = None
    /\ cs["t2"].pc = "waiting" /\ cs["t2"].op = "get_users"
    /\ Len(hist) = 2

====
